---- MODULE Spec2Model ----
(***************************************************************************)
(* async-convert: the TryFromAsync / TryIntoAsync traits and the blanket   *)
(* impl "TryFromAsync implies TryIntoAsync" (src/lib.rs).                  *)
(*                                                                         *)
(* A conversion invocation is a boxed future (async_trait turns each async *)
(* fn into a fn returning Box::pin(async move { .. })).  A driver polls it *)
(* and may drop it.  The forward body is the implementer's code: the doc   *)
(* example GreaterThanZero, which "pretends to do async IO" before it      *)
(* applies its rule; whether that IO is ready at a poll is the             *)
(* environment's choice.                                                   *)
(***************************************************************************)
EXTENDS Integers, Sequences, FiniteSets, TLC

VARIABLES inv, impls

vars == <<inv, impls>>

(* Bounds of the model *)
NInv == 2
MaxYield == 2
MaxImpls == 2

Inv == 1..NInv
\* the inputs of the documented scenarios: 5, 0, -3 and -1
Values == {-3, -1, 0, 5}
Types == {"i32", "GreaterThanZero", "Request", "MyBody"}

(* Option<T> as a sequence of length at most one *)
None == <<>>
Some(x) == <<x>>

(***************************************************************************)
(* The doc example: impl TryFromAsync<i32> for GreaterThanZero             *)
(***************************************************************************)
TryFromAsync_Error == "&'static str"

ErrMsg == "GreaterThanZero only accepts value superior than zero!"

GreaterThanZero(value) == [GreaterThanZero |-> value]

Pending == [tag |-> "Pending"]
Ok(t, E) == [tag |-> "Ok", val |-> t, ety |-> E]
Err(e, E) == [tag |-> "Err", val |-> e, ety |-> E]

\* faulty variant: the rule written as "value < 0"
try_from_async_body_strict(value) ==
    IF value < 0
    THEN Err(ErrMsg, TryFromAsync_Error)
    ELSE Ok(GreaterThanZero(value), TryFromAsync_Error)

try_from_async_body(value) ==
    IF value <= 0
    THEN Err(ErrMsg, TryFromAsync_Error)
    ELSE Ok(GreaterThanZero(value), TryFromAsync_Error)

(***************************************************************************)
(* The blanket impl: type Error = U::Error                                 *)
(***************************************************************************)
TryIntoAsync_Error == TryFromAsync_Error

(***************************************************************************)
(* Trait resolution.  impls is the set of impl items implementers wrote.   *)
(***************************************************************************)
ImplItem(trait, S, T) == [trait |-> trait, S |-> S, T |-> T]

ExampleImpls == {ImplItem("TryFromAsync", "i32", "GreaterThanZero")}

\* faulty variant: a second blanket impl deriving TryFromAsync from TryIntoAsync
Implements_TryFromAsync_sym(S, T, items) ==
    \/ ImplItem("TryFromAsync", S, T) \in items
    \/ ImplItem("TryIntoAsync", S, T) \in items

\* T: TryFromAsync<S> holds only through an impl item: nothing derives it
Implements_TryFromAsync(S, T, items) ==
    ImplItem("TryFromAsync", S, T) \in items

\* S: TryIntoAsync<T> holds through an impl item or through the blanket impl
Implements_TryIntoAsync(S, T, items) ==
    \/ ImplItem("TryIntoAsync", S, T) \in items
    \/ Implements_TryFromAsync(S, T, items)

(***************************************************************************)
(* One invocation: what the caller passed (src), the derived future        *)
(* (outer, self), the forward future (inner, value), and what has been     *)
(* observed of it: try_from_async calls, poll outcomes seen by the driver  *)
(* (seen), poll outcomes of the forward future (bseen), and the side       *)
(* effects of the implementer's body (fx).                                 *)
(***************************************************************************)
NoInvocation ==
    [kind |-> "none", src |-> None,
     outer |-> "Absent", self |-> None,
     inner |-> "Absent", value |-> None,
     calls |-> 0, seen |-> <<>>, bseen |-> <<>>, fx |-> <<>>]

\* T::try_from_async(value): boxes the async block; the body has not started
try_from_async(r, v) ==
    [r EXCEPT !.inner = "Unresumed", !.value = Some(v), !.calls = @ + 1]

\* one poll of the forward future: an IO attempt on the value it holds, then
\* either Pending or the rule's result
poll_try_from_async(r, ready) ==
    LET v == r.value[1]
        out == IF ready THEN try_from_async_body(v) ELSE Pending
    IN [r EXCEPT !.inner = IF ready THEN "Returned" ELSE "Suspended",
                 !.value = IF ready THEN None ELSE @,
                 !.bseen = Append(@, out),
                 !.fx = Append(@, <<"io", v>>)]

\* the outcome of the forward future's latest poll
LastInner(r) == r.bseen[Len(r.bseen)]

\* faulty variant: the call itself starts the forward body
try_into_async_eager(r, v) ==
    poll_try_from_async(try_from_async([r EXCEPT !.outer = "Awaiting"], v), FALSE)

\* v.try_into_async(): boxes the async block holding self
try_into_async(r, v) ==
    [r EXCEPT !.outer = "Unresumed", !.self = Some(v)]

\* the derived future's first poll calls the forward operation with self
StartInner(r) ==
    IF r.inner = "Absent"
    THEN try_from_async([r EXCEPT !.self = None], r.self[1])
    ELSE r

\* faulty variant: the error is wrapped on its way out
poll_try_into_async_wrap(r, ready) ==
    LET polled == poll_try_from_async(StartInner(r), ready)
        out == LastInner(polled)
    IN IF out = Pending
       THEN [polled EXCEPT !.outer = "Awaiting", !.seen = Append(@, Pending)]
       ELSE [polled EXCEPT !.outer = "Returned",
                           !.seen = Append(@, IF out.tag = "Err"
                                              THEN Err(<<"TryIntoAsync", out.val>>, TryFromAsync_Error)
                                              ELSE out)]

\* faulty variant: a failure is replaced by a default target value
poll_try_into_async_default(r, ready) ==
    LET polled == poll_try_from_async(StartInner(r), ready)
        out == LastInner(polled)
    IN IF out = Pending
       THEN [polled EXCEPT !.outer = "Awaiting", !.seen = Append(@, Pending)]
       ELSE [polled EXCEPT !.outer = "Returned",
                           !.seen = Append(@, IF out.tag = "Err"
                                              THEN Ok(GreaterThanZero(0), TryFromAsync_Error)
                                              ELSE out)]

\* faulty variant: a failed forward operation is started once more
poll_try_into_async_retry(r, ready) ==
    LET polled == poll_try_from_async(StartInner(r), ready)
        out == LastInner(polled)
        again == poll_try_from_async(try_from_async(polled, r.src[1]), TRUE)
    IN IF out = Pending
       THEN [polled EXCEPT !.outer = "Awaiting", !.seen = Append(@, Pending)]
       ELSE IF out.tag = "Err"
       THEN [again EXCEPT !.outer = "Returned", !.seen = Append(@, LastInner(again))]
       ELSE [polled EXCEPT !.outer = "Returned", !.seen = Append(@, out)]

\* faulty variant: the delegation yields once before it calls the forward operation
poll_try_into_async_yield(r, ready) ==
    LET polled == poll_try_from_async(StartInner(r), ready)
        out == LastInner(polled)
    IN IF r.outer = "Unresumed"
       THEN [r EXCEPT !.outer = "Awaiting", !.seen = Append(@, Pending)]
       ELSE IF out = Pending
       THEN [polled EXCEPT !.outer = "Awaiting", !.seen = Append(@, Pending)]
       ELSE [polled EXCEPT !.outer = "Returned", !.seen = Append(@, out)]

\* faulty variant: the delegation performs a side effect of its own
poll_try_into_async_effect(r, ready) ==
    LET polled == poll_try_from_async(StartInner([r EXCEPT !.fx = Append(@, <<"into", r.src[1]>>)]), ready)
        out == LastInner(polled)
    IN IF out = Pending
       THEN [polled EXCEPT !.outer = "Awaiting", !.seen = Append(@, Pending)]
       ELSE [polled EXCEPT !.outer = "Returned", !.seen = Append(@, out)]

\* faulty variant: the delegation never takes the forward operation's result
poll_try_into_async_stuck(r, ready) ==
    LET polled == poll_try_from_async(StartInner(r), ready)
    IN IF ready
       THEN r
       ELSE [polled EXCEPT !.outer = "Awaiting", !.seen = Append(@, Pending)]

\* one poll of the derived future: U::try_from_async(self).await
poll_try_into_async(r, ready) ==
    LET polled == poll_try_from_async(StartInner(r), ready)
        out == LastInner(polled)
    IN IF out = Pending
       THEN [polled EXCEPT !.outer = "Awaiting", !.seen = Append(@, Pending)]
       ELSE [polled EXCEPT !.outer = "Returned",
                           !.seen = Append(@, [out EXCEPT !.ety = TryIntoAsync_Error])]

\* one poll of a forward future the caller created directly
poll_forward(r, ready) ==
    LET polled == poll_try_from_async(r, ready)
    IN [polled EXCEPT !.seen = Append(@, LastInner(polled))]

\* dropping a future frees it and the futures it owns
drop(r) ==
    [r EXCEPT !.outer = IF @ = "Absent" THEN @ ELSE "Dropped",
              !.inner = IF @ = "Absent" THEN @ ELSE "Dropped",
              !.self = None, !.value = None]

\* faulty variant: the source value travels through one slot shared by all invocations
Store_shared(invs, i, r) ==
    [j \in DOMAIN invs |->
        IF j = i THEN r
        ELSE IF invs[j].self # None /\ r.self # None
        THEN [invs[j] EXCEPT !.self = r.self]
        ELSE invs[j]]

\* each call boxes its own future: an invocation's state is its own
Store(invs, i, r) == [invs EXCEPT ![i] = r]

Completed(r) == r.seen # <<>> /\ r.seen[Len(r.seen)] # Pending
Cancelled(r) == "Dropped" \in {r.outer, r.inner}
Live(r) == r.kind # "none" /\ ~Completed(r) /\ ~Cancelled(r)
Yields(r) == Len(r.bseen)

(***************************************************************************)
(* Actions                                                                 *)
(***************************************************************************)
Init ==
    /\ inv = [i \in Inv |-> NoInvocation]
    /\ impls = ExampleImpls

Call_try_from_async(i, v) ==
    /\ inv[i].kind = "none"
    /\ Implements_TryFromAsync("i32", "GreaterThanZero", impls)
    /\ inv' = Store(inv, i, try_from_async([NoInvocation EXCEPT !.kind = "from", !.src = Some(v)], v))
    /\ UNCHANGED impls

Call_try_into_async(i, v) ==
    /\ inv[i].kind = "none"
    /\ Implements_TryIntoAsync("i32", "GreaterThanZero", impls)
    /\ inv' = Store(inv, i, try_into_async([NoInvocation EXCEPT !.kind = "into", !.src = Some(v)], v))
    /\ UNCHANGED impls

\* the IO of the body is ready after at most MaxYield pending polls
Poll(i, ready) ==
    /\ Live(inv[i])
    /\ ready \/ Yields(inv[i]) < MaxYield
    /\ inv' = Store(inv, i, IF inv[i].kind = "into"
                            THEN poll_try_into_async(inv[i], ready)
                            ELSE poll_forward(inv[i], ready))
    /\ UNCHANGED impls

Drop(i) ==
    /\ Live(inv[i])
    /\ inv' = Store(inv, i, drop(inv[i]))
    /\ UNCHANGED impls

Next ==
    \/ \E i \in Inv, v \in Values : Call_try_from_async(i, v)
    \/ \E i \in Inv, v \in Values : Call_try_into_async(i, v)
    \/ \E i \in Inv, ready \in BOOLEAN : Poll(i, ready)
    \/ \E i \in Inv : Drop(i)

Spec == Init /\ [][Next]_vars

(***************************************************************************)
(* A driver that keeps polling every invocation it created and drops none  *)
(***************************************************************************)
NextDriven ==
    \/ \E i \in Inv, v \in Values : Call_try_from_async(i, v)
    \/ \E i \in Inv, v \in Values : Call_try_into_async(i, v)
    \/ \E i \in Inv, ready \in BOOLEAN : Poll(i, ready)

FairSpec ==
    /\ Init
    /\ [][NextDriven]_vars
    /\ \A i \in Inv : WF_vars(\E ready \in BOOLEAN : Poll(i, ready))

(***************************************************************************)
(* Implementers writing impl items.  The blanket impl covers every pair    *)
(* with a TryFromAsync impl, so a hand-written TryIntoAsync for such a     *)
(* pair overlaps it and is rejected.                                       *)
(***************************************************************************)
InitImpls ==
    /\ inv = [i \in Inv |-> NoInvocation]
    /\ impls = {}

Impl_TryFromAsync(S, T) ==
    /\ Cardinality(impls) < MaxImpls
    /\ ImplItem("TryFromAsync", S, T) \notin impls
    /\ ImplItem("TryIntoAsync", S, T) \notin impls
    /\ impls' = impls \cup {ImplItem("TryFromAsync", S, T)}
    /\ UNCHANGED inv

Impl_TryIntoAsync(S, T) ==
    /\ Cardinality(impls) < MaxImpls
    /\ ~Implements_TryIntoAsync(S, T, impls)
    /\ impls' = impls \cup {ImplItem("TryIntoAsync", S, T)}
    /\ UNCHANGED inv

NextImpls ==
    \/ \E S \in Types, T \in Types : Impl_TryFromAsync(S, T)
    \/ \E S \in Types, T \in Types : Impl_TryIntoAsync(S, T)

SpecImpls == InitImpls /\ [][NextImpls]_vars

(***************************************************************************)
(* Properties                                                              *)
(***************************************************************************)
Outcome(r) == r.seen[Len(r.seen)]
Derived == {i \in Inv : inv[i].kind = "into"}
Forward == {i \in Inv : inv[i].kind = "from"}
Outcomes(r) == {k \in 1..Len(r.seen) : r.seen[k] # Pending}

\* C1: a completed derived try_into_async(v) has exactly the result of
\* T::try_from_async(v): the result the forward future it wraps returned, the
\* result of the rule on v, and the result of every direct forward call on v.
C1_SameResult ==
    \A i \in Derived :
        Completed(inv[i]) =>
            /\ Outcome(inv[i]) = LastInner(inv[i])
            /\ Outcome(inv[i]) = try_from_async_body(inv[i].src[1])
            /\ \A j \in Forward :
                   (Completed(inv[j]) /\ inv[j].src = inv[i].src)
                       => Outcome(inv[i]) = Outcome(inv[j])

\* a derived call that suspended and then failed, beside a direct forward call
\* on the same value that completed
C1_Witness ==
    \E i \in Derived, j \in Forward :
        /\ Completed(inv[i]) /\ Completed(inv[j])
        /\ inv[i].src = inv[j].src
        /\ Len(inv[i].seen) > 1
        /\ Outcome(inv[i]).tag = "Err"

\* C2: whenever the forward future returns Err(e), the derived future returns
\* that same Err(e) at that same poll, with the forward error type, and the
\* derived future returns no error the forward future did not return.
C2_ErrorUnchanged ==
    \A i \in Derived :
        /\ \A k \in 1..Len(inv[i].bseen) :
               inv[i].bseen[k].tag = "Err" =>
                   /\ k <= Len(inv[i].seen)
                   /\ inv[i].seen[k] = inv[i].bseen[k]
                   /\ inv[i].seen[k].ety = TryFromAsync_Error
        /\ \A k \in 1..Len(inv[i].seen) :
               inv[i].seen[k].tag = "Err" =>
                   /\ k <= Len(inv[i].bseen)
                   /\ inv[i].bseen[k] = inv[i].seen[k]

C2_Witness ==
    \E i \in Derived :
        /\ Completed(inv[i])
        /\ Outcome(inv[i]) = Err(ErrMsg, TryFromAsync_Error)
        /\ LastInner(inv[i]) = Err(ErrMsg, TryFromAsync_Error)

\* C3: GreaterThanZero: a completed conversion of a value > 0 is Ok wrapping
\* that value, of a value <= 0 the one fixed error, forward or derived; 5 gives
\* GreaterThanZero(5), and 0, -3 and -1 give the error.
C3_GreaterThanZero ==
    \A i \in Inv :
        Completed(inv[i]) =>
            LET v == inv[i].src[1] IN
            /\ v > 0 => Outcome(inv[i]) = [tag |-> "Ok", val |-> [GreaterThanZero |-> v],
                                           ety |-> "&'static str"]
            /\ v <= 0 => Outcome(inv[i]) = [tag |-> "Err", val |-> ErrMsg,
                                            ety |-> "&'static str"]
            /\ v = 5 => Outcome(inv[i]).val = [GreaterThanZero |-> 5]
            /\ v \in {0, -3, -1} => Outcome(inv[i]).tag = "Err"

\* the forward call on 0 beside the derived call on 0, both completed
C3_Witness ==
    \E i \in Derived, j \in Forward :
        /\ Completed(inv[i]) /\ Completed(inv[j])
        /\ inv[i].src = Some(0) /\ inv[j].src = Some(0)

\* C4: a derived invocation calls try_from_async at most once; an error of the
\* forward future is its last poll and completes the derived invocation with
\* that error.
C4_NoRetry ==
    \A i \in Derived :
        /\ inv[i].calls <= 1
        /\ \A k \in 1..Len(inv[i].bseen) :
               inv[i].bseen[k].tag = "Err" =>
                   /\ k = Len(inv[i].bseen)
                   /\ Completed(inv[i])
                   /\ Outcome(inv[i]) = inv[i].bseen[k]

C4_Witness ==
    \E i \in Derived :
        /\ Completed(inv[i])
        /\ LastInner(inv[i]).tag = "Err"
        /\ inv[i].calls = 1

\* C5: an invocation produces at most one outcome, as its last poll; once it
\* has, nothing of it changes; and under a driver that keeps polling, every
\* invocation made, forward or derived, is eventually completed for good.
C5_OneOutcome ==
    /\ [](\A i \in Inv :
             /\ Cardinality(Outcomes(inv[i])) <= 1
             /\ Outcomes(inv[i]) \subseteq {Len(inv[i].seen)})
    /\ [][\A i \in Inv : Completed(inv[i]) => inv'[i] = inv[i]]_vars
    /\ <>[](\A i \in Inv : inv[i].kind \in {"from", "into"} => Completed(inv[i]))

\* every invocation completed, a derived one after having suspended
C5_Witness ==
    /\ \A i \in Inv : Completed(inv[i])
    /\ \E i \in Derived : Len(inv[i].seen) > 1 /\ Cardinality(Outcomes(inv[i])) = 1

C7_SameSuspension ==
    \A i \in Derived :
        /\ Len(inv[i].seen) = Len(inv[i].bseen)
        /\ \A k \in 1..Len(inv[i].seen) :
               (inv[i].seen[k] = Pending) <=> (inv[i].bseen[k] = Pending)
        /\ (inv[i].outer = "Awaiting") <=> (inv[i].inner = "Suspended")
        /\ (inv[i].outer = "Returned") <=> (inv[i].inner = "Returned")
        /\ inv[i].outer \in {"Awaiting", "Returned"} => inv[i].calls = 1
        /\ \A j \in Forward :
               (inv[j].src = inv[i].src /\ inv[j].bseen = inv[i].bseen)
                   => inv[j].seen = inv[i].seen

\* a derived future suspended at its await, and another completed after
\* suspending
C7_Witness ==
    \E i \in Derived, j \in Derived :
        /\ inv[i].outer = "Awaiting" /\ inv[i].inner = "Suspended"
        /\ Completed(inv[j]) /\ Len(inv[j].seen) > 1

\* C8: under any interleaving, a completed invocation has the result of the
\* rule on its own source value, its effects name its own value only, the
\* value it holds is its own, held by one future at a time and by none once
\* consumed; and a step changes one invocation only.
C8_Isolation ==
    /\ [](\A i \in Inv :
             /\ Completed(inv[i]) => Outcome(inv[i]) = try_from_async_body(inv[i].src[1])
             /\ \A k \in 1..Len(inv[i].fx) : inv[i].fx[k][2] = inv[i].src[1]
             /\ inv[i].self \in {None, inv[i].src}
             /\ inv[i].value \in {None, inv[i].src}
             /\ ~(inv[i].self # None /\ inv[i].value # None)
             /\ Completed(inv[i]) => inv[i].self = None /\ inv[i].value = None)
    /\ [][\A i \in Inv, j \in Inv :
             (i # j /\ inv'[i] # inv[i]) => inv'[j] = inv[j]]_vars

\* two invocations on different values, interleaved: one completed while the
\* other is suspended
C8_Witness ==
    \E i \in Inv, j \in Inv :
        /\ inv[i].kind = "into" /\ Completed(inv[i]) /\ Len(inv[i].seen) > 1
        /\ inv[j].inner = "Suspended"
        /\ inv[i].src # inv[j].src

\* C9: the effects during a derived call are those of the forward body: one
\* per poll of the forward future, each on the value v passed to the derived
\* call, the same sequence as a direct forward call on v whose body behaved
\* the same; and the forward future holds exactly v.
C9_NoOwnEffects ==
    \A i \in Derived :
        /\ Len(inv[i].fx) = Len(inv[i].bseen)
        /\ \A k \in 1..Len(inv[i].fx) : inv[i].fx[k] = <<"io", inv[i].src[1]>>
        /\ inv[i].value # None => inv[i].value = inv[i].src
        /\ \A j \in Forward :
               (inv[j].src = inv[i].src /\ inv[j].bseen = inv[i].bseen)
                   => inv[j].fx = inv[i].fx

C9_Witness ==
    \E i \in Derived, j \in Forward :
        /\ Completed(inv[i]) /\ Completed(inv[j])
        /\ inv[i].src = inv[j].src
        /\ inv[i].bseen = inv[j].bseen
        /\ Len(inv[i].fx) > 1

\* C10: until its first poll an invocation has performed no effect and its
\* forward body has not started (a derived one has not even called
\* try_from_async); a dropped invocation has produced no outcome and nothing
\* of it changes afterwards.
C10_LazyAndStops ==
    /\ [](\A i \in Inv :
             /\ (inv[i].seen = <<>>) =>
                    /\ inv[i].fx = <<>>
                    /\ inv[i].bseen = <<>>
                    /\ inv[i].inner \in {"Absent", "Unresumed", "Dropped"}
             /\ (inv[i].kind = "into" /\ inv[i].seen = <<>>) =>
                    inv[i].calls = 0 /\ inv[i].inner = "Absent"
             /\ Cancelled(inv[i]) => Outcomes(inv[i]) = {})
    /\ [][\A i \in Inv : Cancelled(inv[i]) =>
             (inv'[i] = inv[i] /\ Cancelled(inv'[i]))]_vars

\* a derived invocation created and not yet polled, beside one dropped while
\* suspended
C10_Witness ==
    \E i \in Derived, j \in Derived :
        /\ inv[i].outer = "Unresumed" /\ inv[i].seen = <<>>
        /\ Cancelled(inv[j]) /\ Len(inv[j].seen) > 0

====
